---------------------------- MODULE Spec2Model ----------------------------
(***************************************************************************)
(* A model of the Qlik script synchroniser (src/qlik/qlik_script.py and    *)
(* src/qlik/qlik.py): the tab codec (parse_script_tabs,                    *)
(* save_tabs_as_qvs_files, get_app_script_tabbed, combine_tabs_from_files),*)
(* the reload log stream (stream_reload_log) and the remote client         *)
(* (get_app_by_name, get_app_published_id, publish_app).                   *)
(*                                                                         *)
(* Text is a sequence of one-character strings.  A Python exception that   *)
(* leaves a function is the name of its class in an "err" field.           *)
(***************************************************************************)
EXTENDS Integers, Sequences, FiniteSets, TLC

VARIABLES
    \* ---- tab codec (commands get / set)
    cpc,            \* position of the codec run: "fetched", "parsed", "saved", "set", "shown"
    script,         \* the script text fetched from the application
    tabs,           \* the dict returned by parse_script_tabs, in insertion order
    files,          \* the directory scripts/<app>/<id>: entries [stem, content], in creation order
    glob_order,     \* the order in which glob("*.qvs") listed the files, as indices into files
    combined,       \* what the reconstruction returned: [err, parts, script]
    \* ---- reload log stream (command load)
    spc,            \* position of the generator: "poll", "yielded", "done", "raised"
    clear_on_update,\* the delivery mode argument
    last_log_length,\* the generator's local
    responses,      \* history: what each call of get_reload_log returned or raised
    emitted,        \* history: the updates the generator has yielded
    \* ---- remote client (get_app_by_name, command pub)
    rpc,            \* position of the client run
    app_id,         \* the identifier argument ("" when none was supplied)
    response_data,  \* the "data" list of the catalog search
    app_result,     \* what get_app_by_name returned or raised
    http_log,       \* history: the requests sent after the catalog search
    pub_result,     \* outcome of publish_app
    \* ---- command load: the reload request
    lpc,            \* position of the load run
    reload_id,      \* what reload_app returned ("None": Python's None)
    \* ---- commands rem and get: the local directory scripts/<sanitized name>
    dpc,            \* position of the rem or get run
    tree,           \* [exists, apps]: the name directory and, per application id, its directory
    tree_before,    \* history: the tree as empty_script_directory found it
    target          \* the identifier of the application the run resolved

vars == << cpc, script, tabs, files, glob_order, combined,
           spc, clear_on_update, last_log_length, responses, emitted,
           rpc, app_id, response_data, app_result, http_log, pub_result,
           lpc, reload_id, dpc, tree, tree_before, target >>

codec_vars  == << cpc, script, tabs, files, glob_order, combined >>
stream_vars == << spc, clear_on_update, last_log_length, responses, emitted >>
client_vars == << rpc, app_id, response_data, app_result, http_log, pub_result >>
load_vars   == << lpc, reload_id >>
disk_vars   == << dpc, tree, tree_before, target >>

----------------------------------------------------------------------------
(* Bounds of the model *)

\* the longest script assembled from free pieces
MaxPieces == 5
\* the largest number of tab markers of a regular script (index 10 needs 11)
MaxMarkers == 11

----------------------------------------------------------------------------
(* Characters and text *)

CR == "\r"
LF == "\n"
SP == " "

\* the code points the default ordering compares
Ord(c) ==
    CASE c = LF  -> 10
      [] c = CR  -> 13
      [] c = SP  -> 32
      [] c = "$" -> 36
      [] c = "/" -> 47
      [] c = "0" -> 48
      [] c = "1" -> 49
      [] c = "2" -> 50
      [] c = "3" -> 51
      [] c = "4" -> 52
      [] c = "5" -> 53
      [] c = "6" -> 54
      [] c = "7" -> 55
      [] c = "8" -> 56
      [] c = "9" -> 57
      [] c = ":" -> 58
      [] c = "A" -> 65
      [] c = "B" -> 66
      [] c = "M" -> 77
      [] c = "T" -> 84
      [] c = "_" -> 95
      [] c = "a" -> 97
      [] c = "b" -> 98
      [] c = "i" -> 105
      [] c = "n" -> 110
      [] c = "t" -> 116

\* what Python's \s and str.strip() take for whitespace
IsSpace(c) == c \in {SP, "\t", LF, CR}

\* what [^\r\n] excludes
IsNewline(c) == c \in {CR, LF}

\* s[a:b] on 1-based inclusive positions a..b (empty when b < a)
Slice(s, a, b) == IF b < a THEN << >> ELSE SubSeq(s, a, b)

\* the first position >= i of s that is not whitespace (Len(s)+1 when none)
RECURSIVE SkipSpace(_, _)
SkipSpace(s, i) ==
    IF i > Len(s) \/ ~IsSpace(s[i]) THEN i ELSE SkipSpace(s, i + 1)

\* the last position <= i of s that is not whitespace (0 when none)
RECURSIVE SkipSpaceBack(_, _)
SkipSpaceBack(s, i) ==
    IF i < 1 \/ ~IsSpace(s[i]) THEN i ELSE SkipSpaceBack(s, i - 1)

\* str.rstrip()
RStrip(s) == Slice(s, 1, SkipSpaceBack(s, Len(s)))

\* str.strip()
Strip(s) == Slice(s, SkipSpace(s, 1), SkipSpaceBack(s, Len(s)))

\* content.replace('\r\n', '\r').replace('\n', '\r')
RECURSIVE NormalizeEol(_)
NormalizeEol(s) ==
    IF s = << >> THEN << >>
    ELSE IF s[1] = CR /\ Len(s) >= 2 /\ s[2] = LF
         THEN << CR >> \o NormalizeEol(SubSeq(s, 3, Len(s)))
    ELSE IF s[1] = LF THEN << CR >> \o NormalizeEol(Tail(s))
    ELSE << s[1] >> \o NormalizeEol(Tail(s))

\* the characters the file name sanitizer replaces: [<>:"/\\|?*]
UnsafeChars == {"<", ">", ":", "\"", "/", "\\", "|", "?", "*"}

\* re.sub(r'[<>:"/\\|?*]', '_', name)
Sanitize(s) == [i \in 1..Len(s) |-> IF s[i] \in UnsafeChars THEN "_" ELSE s[i]]

Digit(d) == CASE d = 0 -> "0" [] d = 1 -> "1" [] d = 2 -> "2" [] d = 3 -> "3"
              [] d = 4 -> "4" [] d = 5 -> "5" [] d = 6 -> "6" [] d = 7 -> "7"
              [] d = 8 -> "8" [] d = 9 -> "9"

\* f"{i}" for a natural number
RECURSIVE DecStr(_)
DecStr(i) == IF i < 10 THEN << Digit(i) >> ELSE DecStr(i \div 10) \o << Digit(i % 10) >>

\* sep.join(parts)
RECURSIVE Join(_, _)
Join(parts, sep) ==
    IF parts = << >> THEN << >>
    ELSE IF Len(parts) = 1 THEN parts[1]
    ELSE parts[1] \o sep \o Join(Tail(parts), sep)

\* whether t occurs in s at position p
OccursAt(s, p, t) ==
    /\ p >= 1
    /\ p + Len(t) - 1 <= Len(s)
    /\ \A k \in 1..Len(t) : s[p + k - 1] = t[k]


----------------------------------------------------------------------------
(* Tab codec: split *)

\* the literal head of a tab marker
TabLiteral == << "/", "/", "/", "$", "t", "a", "b" >>

\* the end of the run of characters of class space starting at position i
\* (i - 1 when s[i] is not in the class)
RECURSIVE RunEnd(_, _, _)
RunEnd(s, i, space) ==
    IF i > Len(s) \/ s[i] \notin space THEN i - 1 ELSE RunEnd(s, i + 1, space)

\* the end of the run of characters that are not line terminators starting at i
RECURSIVE LineEnd(_, _)
LineEnd(s, i) ==
    IF i > Len(s) \/ IsNewline(s[i]) THEN i - 1 ELSE LineEnd(s, i + 1)

\* One attempt of the pattern  ///\$tab<space>+([^\r\n]+)  at position p, where
\* <space> is the given character class: the literal, then the longest run of
\* the class, given back one character at a time until a character that is not
\* a line terminator follows it, then that character's line to its end.
\* [ok, start, gstart, end]: the match covers start..end, the group gstart..end.
MatchAt(s, p, space) ==
    LET ws == p + Len(TabLiteral)
        e  == RunEnd(s, ws, space)
        gs == { g \in (ws + 1)..(e + 1) : g <= Len(s) /\ ~IsNewline(s[g]) }
        g  == CHOOSE x \in gs : \A y \in gs : y <= x
    IN  IF OccursAt(s, p, TabLiteral) /\ e >= ws /\ gs # {}
        THEN [ok |-> TRUE, start |-> p, gstart |-> g, end |-> LineEnd(s, g)]
        ELSE [ok |-> FALSE, start |-> p, gstart |-> p, end |-> p]

\* list(re.finditer(pattern, s)): the non-overlapping matches, leftmost first
RECURSIVE FindIter(_, _, _)
FindIter(s, p, space) ==
    IF p > Len(s) THEN << >>
    ELSE LET m == MatchAt(s, p, space)
         IN  IF m.ok THEN << m >> \o FindIter(s, m.end + 1, space)
             ELSE FindIter(s, p + 1, space)

\* the class \s of the tab pattern
PatternSpace == {SP, "\t", CR, LF}

\* tab_pattern = r'///\$tab\s+([^\r\n]+)' ; matches = list(re.finditer(...))
TabMatches(s) == FindIter(s, 1, PatternSpace)

\* d[key] = value on a dict kept as a sequence of entries in insertion order
DictSet(d, key, value) ==
    IF \E i \in 1..Len(d) : d[i].key = key
    THEN [i \in 1..Len(d) |-> IF d[i].key = key THEN [key |-> key, content |-> value] ELSE d[i]]
    ELSE Append(d, [key |-> key, content |-> value])

MainKey == << "M", "a", "i", "n" >>
KeySep == << "_", "_", "_" >>

\* tab_name = f"{i}___{tab_name}" for the match of 0-based index i
TabKey(i, name) == DecStr(i) \o KeySep \o name

\* the loop "for i, match in enumerate(matches)" from its k-th match (1-based) on
RECURSIVE ParseLoop(_, _, _, _)
ParseLoop(s, matches, k, d) ==
    IF k > Len(matches) THEN d
    ELSE LET m         == matches[k]
             tab_name  == TabKey(k - 1, Slice(s, m.gstart, m.end))
             start_pos == m.end + 1
             end_pos   == IF k + 1 <= Len(matches) THEN matches[k + 1].start - 1 ELSE Len(s)
             content   == Strip(Slice(s, start_pos, end_pos))
         IN  ParseLoop(s, matches, k + 1, DictSet(d, tab_name, content))

\* QlikScript.parse_script_tabs, over the matches it found
ParseWith(s, matches) ==
    IF matches = << >>
    THEN << [key |-> MainKey, content |-> Strip(s)] >>
    ELSE LET first_tab_content == Strip(Slice(s, 1, matches[1].start - 1))
             d0 == IF first_tab_content # << >>
                   THEN << [key |-> MainKey, content |-> first_tab_content] >>
                   ELSE << >>
         IN  ParseLoop(s, matches, 1, d0)

parse_script_tabs(s) == ParseWith(s, TabMatches(s))

----------------------------------------------------------------------------
(* Tab codec: persist *)

\* open(file_path, 'w') ... f.write(text): the file is created, or truncated
\* and rewritten in place when the directory already holds that name
WriteFile(dir, stem, text) ==
    IF \E i \in 1..Len(dir) : dir[i].stem = stem
    THEN [i \in 1..Len(dir) |-> IF dir[i].stem = stem THEN [stem |-> stem, content |-> text] ELSE dir[i]]
    ELSE Append(dir, [stem |-> stem, content |-> text])

\* safe_name = re.sub(r'[<>:"/\\|?*]', '_', tab_name)
SafeName(tab_name) == Sanitize(tab_name)

\* the loop "for tab_name, content in tabs.items()" from its k-th item on
RECURSIVE SaveLoop(_, _, _)
SaveLoop(d, k, dir) ==
    IF k > Len(d) THEN dir
    ELSE SaveLoop(d, k + 1, WriteFile(dir, SafeName(d[k].key), NormalizeEol(d[k].content)))

\* QlikScript.save_tabs_as_qvs_files: the directory afterwards
save_tabs_as_qvs_files(d, dir) == SaveLoop(d, 1, dir)

----------------------------------------------------------------------------
(* Tab codec: reconstruct *)

\* key=lambda x: x.stem[:3] if len(x.stem) >= 3 else x.stem
SortKey(stem) == IF Len(stem) >= 3 THEN SubSeq(stem, 1, 3) ELSE stem

\* Python's  a < b  on str: by code point, a proper prefix first
RECURSIVE StrLess(_, _)
StrLess(a, b) ==
    IF b = << >> THEN FALSE
    ELSE IF a = << >> THEN TRUE
    ELSE IF a[1] # b[1] THEN Ord(a[1]) < Ord(b[1])
    ELSE StrLess(Tail(a), Tail(b))

\* whether the file of key ka goes before the file of key kb
Before(ka, kb, reverse) == IF reverse THEN StrLess(kb, ka) ELSE StrLess(ka, kb)

\* one file put into a sorted list, behind every file it does not go before
RECURSIVE InsertSorted(_, _, _)
InsertSorted(sorted, f, reverse) ==
    IF sorted = << >> THEN << f >>
    ELSE IF Before(SortKey(f.stem), SortKey(sorted[1].stem), reverse)
         THEN << f >> \o sorted
         ELSE << sorted[1] >> \o InsertSorted(Tail(sorted), f, reverse)

\* sorted(qvs_files, key=..., reverse=...): stable, so files of equal key keep
\* the order in which glob listed them
RECURSIVE SortFiles(_, _, _)
SortFiles(listed, k, reverse) ==
    IF k = 0 THEN << >>
    ELSE InsertSorted(SortFiles(listed, k - 1, reverse), listed[k], reverse)

\* list(script_dir.glob("*.qvs")) in the order the listing came in
Glob(dir, order) == [i \in 1..Len(order) |-> dir[order[i]]]

\* the publish path's ordering (reverse=False)
OrderAscending(listed) == SortFiles(listed, Len(listed), FALSE)

\* the display path's ordering (reverse=True)
OrderDescending(listed) == SortFiles(listed, Len(listed), TRUE)

\* str.split('___'): the pieces between the non-overlapping separators
RECURSIVE SplitSep(_, _, _)
SplitSep(s, p, from) ==
    IF p > Len(s) THEN << Slice(s, from, Len(s)) >>
    ELSE IF OccursAt(s, p, KeySep)
         THEN << Slice(s, from, p - 1) >> \o SplitSep(s, p + Len(KeySep), p + Len(KeySep))
         ELSE SplitSep(s, p + 1, from)

\* f"///$tab {name}\r{content}"
MarkerFragment(name, content) == TabLiteral \o << SP >> \o name \o << CR >> \o content

\* the name get_app_script_tabbed puts on the marker: tab_name.split('___')[1]
\* ([ok |-> FALSE] when the list has no second element: IndexError)
PublishName(tab_name) ==
    LET pieces == SplitSep(tab_name, 1, 1)
    IN  IF Len(pieces) >= 2 THEN [ok |-> TRUE, name |-> pieces[2]]
        ELSE [ok |-> FALSE, name |-> << >>]

\* the loop of get_app_script_tabbed from its k-th file on
RECURSIVE PublishLoop(_, _, _)
PublishLoop(ordered, k, parts) ==
    IF k > Len(ordered) THEN [err |-> "", parts |-> parts, script |-> Join(parts, << CR, CR >>)]
    ELSE LET content == RStrip(ordered[k].content)
             nm      == PublishName(ordered[k].stem)
         IN  IF content = << >> THEN PublishLoop(ordered, k + 1, parts)
             ELSE IF ~nm.ok THEN [err |-> "IndexError", parts |-> parts, script |-> << >>]
             ELSE PublishLoop(ordered, k + 1,
                              Append(parts, MarkerFragment(nm.name, NormalizeEol(content))))

\* QlikScript.get_app_script_tabbed over the listed files
get_app_script_tabbed(listed) ==
    IF listed = << >> THEN [err |-> "ValueError", parts |-> << >>, script |-> << >>]
    ELSE PublishLoop(OrderAscending(listed), 1, << >>)

\* the loop of combine_tabs_from_files from its k-th file on
RECURSIVE CombineLoop(_, _, _)
CombineLoop(ordered, k, parts) ==
    IF k > Len(ordered) THEN [err |-> "", parts |-> parts, script |-> Join(parts, << CR, CR >>)]
    ELSE LET content == Strip(ordered[k].content)
         IN  IF content = << >> THEN CombineLoop(ordered, k + 1, parts)
             ELSE IF ordered[k].stem = MainKey /\ k = 1
                  THEN CombineLoop(ordered, k + 1, Append(parts, NormalizeEol(content)))
                  ELSE CombineLoop(ordered, k + 1,
                         Append(parts, MarkerFragment(ordered[k].stem, NormalizeEol(content))))

\* QlikScript.combine_tabs_from_files with tab_order=None over the listed files
combine_tabs_from_files(listed) ==
    IF listed = << >> THEN [err |-> "ValueError", parts |-> << >>, script |-> << >>]
    ELSE CombineLoop(OrderDescending(listed), 1, << >>)

----------------------------------------------------------------------------
(* Reload log stream *)

\* the most polls one run of the model makes
MaxPolls == 2
\* the longest cumulative log the remote service returns
MaxLog == 2

\* str.upper() on one character
UpperChar(c) ==
    CASE c = "a" -> "A" [] c = "c" -> "C" [] c = "d" -> "D" [] c = "e" -> "E"
      [] c = "f" -> "F" [] c = "g" -> "G" [] c = "i" -> "I" [] c = "l" -> "L"
      [] c = "n" -> "N" [] c = "q" -> "Q" [] c = "r" -> "R" [] c = "s" -> "S"
      [] c = "u" -> "U"
      [] OTHER -> c

\* str.upper()
Upper(s) == [i \in 1..Len(s) |-> UpperChar(s[i])]

\* the status words the generator compares with and yields
SUCCEEDED_ == << "S", "U", "C", "C", "E", "E", "D", "E", "D" >>
FAILED_ == << "F", "A", "I", "L", "E", "D" >>
CANCELLED_ == << "C", "A", "N", "C", "E", "L", "L", "E", "D" >>
ERROR_ == << "E", "R", "R", "O", "R" >>

\* ["SUCCEEDED", "FAILED", "CANCELLED"]
CompleteStatuses == { SUCCEEDED_, FAILED_, CANCELLED_ }

\* the status compared as it came, without .upper()
CurrentStatus_AsReceived(raw) == raw

\* current_status = log_data.get("status", "").upper()
CurrentStatus(raw) == Upper(raw)

\* current_status in ["SUCCEEDED", "FAILED", "CANCELLED"]
IsComplete(current_status) == current_status \in CompleteStatuses

\* is_new = len(log_content) > last_log_length
IsNew(log_content, last) == Len(log_content) > last

\* new_log = log_content[last_log_length:]
NewLog(log_content, last) == Slice(log_content, last + 1, Len(log_content))

\* the 'log' field of yield_data
YieldLog(log_content, last, clear) ==
    IF clear THEN log_content
    ELSE IF IsNew(log_content, last) THEN NewLog(log_content, last)
    ELSE << >>

\* yield_data for the poll result log_data
YieldData(log_data, last, clear) ==
    [ log         |-> YieldLog(log_data.log, last, clear),
      status      |-> CurrentStatus(log_data.status),
      is_new      |-> IsNew(log_data.log, last),
      is_complete |-> IsComplete(CurrentStatus(log_data.status)) ]

\* f"Error polling reload status: {str(e)}\n"
ErrorLog(e) == << "Error polling reload status: ", e, LF >>

\* an except branch that swallows the error and polls again
OnPollError_Retry(e) == [ yields |-> << >>, next |-> "poll" ]

\* the except branch: what is yielded, and where the generator is afterwards
OnPollError(e) ==
    [ yields |-> << [ log |-> ErrorLog(e), status |-> ERROR_, is_new |-> TRUE,
                      is_complete |-> TRUE ] >>,
      next   |-> "yielded" ]

\* a loop that forgets to move last_log_length
NextLastLogLength_Stale(log_content, last) == last

\* last_log_length after the yield: "if is_new: last_log_length = len(log_content)"
NextLastLogLength(log_content, last) ==
    IF IsNew(log_content, last) THEN Len(log_content) ELSE last

\* the loop without its break: sleep and poll again whatever was yielded
AfterYield_NoBreak(yield_data) == "poll"

\* after the yield: "if yield_data['is_complete']: break", else sleep and poll again
AfterYield(yield_data) == IF yield_data.is_complete THEN "done" ELSE "poll"

----------------------------------------------------------------------------
(* Remote client: application resolution *)

\* the most catalog entries one search returns
MaxMatches == 2

\* "if not response_data"
NoAppFound(data) == data = << >>

\* a check that lets a pair of matches through
MultipleApps_MoreThanTwo(data) == Len(data) > 2

\* "if len(response_data) > 1"
MultipleApps(data) == Len(data) > 1

\* multiple_apps: one line "{name} ({resourceId})" per entry of the search result
MultipleAppsText(data) == [i \in 1..Len(data) |-> << data[i].name, data[i].resourceId >>]

\* "if "spaceId" in app_dict and len(app_dict["spaceId"]) > 0"
HasSpace(app) == app.spaceId # ""

\* the URL of the catalog search
SearchRequest(id) ==
    IF id # "" THEN "GET /items?resourceType=app&spaceType=shared&name=&resourceId="
    ELSE "GET /items?resourceType=app&spaceType=shared&name="

\* QlikScript.get_app_by_name on the search result data, where space_ok[k]
\* tells whether the k-th call of get_space_type passed raise_for_status:
\* [err, listed, record, requests]
get_app_by_name(id, data, space_ok) ==
    LET search == << SearchRequest(id) >>
        none   == [appId |-> "", appItemId |-> "", spaceId |-> "", spaceType |-> ""]
    IN  IF NoAppFound(data)
        THEN [err |-> "ValueError: No app found", listed |-> << >>, record |-> none,
              requests |-> search]
        ELSE IF MultipleApps(data)
        THEN [err |-> "ValueError: Multiple apps found", listed |-> MultipleAppsText(data),
              record |-> none, requests |-> search]
        ELSE LET app == data[1]
                 rec == [appId |-> app.resourceId, appItemId |-> app.id,
                         spaceId |-> app.spaceId, spaceType |-> ""]
             IN  IF ~HasSpace(app)
                 THEN [err |-> "", listed |-> << >>, record |-> rec, requests |-> search]
                 ELSE IF ~space_ok[1]
                 THEN [err |-> "HTTPError", listed |-> << >>, record |-> none,
                       requests |-> search \o << "GET /spaces/" >>]
                 ELSE IF ~space_ok[2]
                 THEN [err |-> "HTTPError", listed |-> << >>, record |-> none,
                       requests |-> search \o << "GET /spaces/", "GET /spaces/" >>]
                 ELSE [err |-> "", listed |-> << >>,
                       record |-> [rec EXCEPT !.spaceType = "shared"],
                       requests |-> search \o << "GET /spaces/", "GET /spaces/" >>]

----------------------------------------------------------------------------
(* Remote client: publish to the managed space *)

\* a check that only looks for an empty list
PublishedMissing_EmptyOnly(data) == data = << >>

\* "if not response_data or "resourceId" not in response_data[0]"
PublishedMissing(data) == data = << >> \/ data[1].resourceId = "absent"

\* QlikScript.get_app_published_id after its get_app_by_name: item is the
\* outcome of GET /items?resourceId= and published that of GET
\* /items/{id}/publisheditems, each [ok, data]:  [err, id, requests]
get_app_published_id(item, published) ==
    IF ~item.ok
    THEN [err |-> "HTTPError", id |-> "", requests |-> << "GET /items?resourceId=" >>]
    ELSE IF item.data = << >>
    THEN [err |-> "IndexError", id |-> "", requests |-> << "GET /items?resourceId=" >>]
    ELSE IF ~published.ok
    THEN [err |-> "HTTPError", id |-> "",
          requests |-> << "GET /items?resourceId=", "GET /items/publisheditems" >>]
    ELSE IF PublishedMissing(published.data)
    THEN [err |-> "ValueError: publish it once from the UI first", id |-> "",
          requests |-> << "GET /items?resourceId=", "GET /items/publisheditems" >>]
    ELSE [err |-> "", id |-> published.data[1].resourceId,
          requests |-> << "GET /items?resourceId=", "GET /items/publisheditems" >>]

\* the rest of QlikScript.publish_app once app_published_id is at hand:
\* put is the outcome of PUT /apps/{id}/publish, [ok, status_code]
PublishRequest(app_published_id, put) ==
    [ err      |-> IF ~put.ok THEN "HTTPError"
                   ELSE IF put.status_code # 200 THEN "ValueError: Failed to publish app"
                   ELSE "",
      target   |-> app_published_id,
      requests |-> << "PUT /apps/publish" >> ]

----------------------------------------------------------------------------
(* The values the parts of the state hold while their command does not run *)

NoResult == [err |-> "none", parts |-> << >>, script |-> << >>]
NoApp == [err |-> "none", listed |-> << >>,
          record |-> [appId |-> "", appItemId |-> "", spaceId |-> "", spaceType |-> ""],
          requests |-> << >>]
NoPublish == [err |-> "none", target |-> "", published |-> << >>]

CodecIdle ==
    /\ cpc = "idle" /\ script = << >> /\ tabs = << >> /\ files = << >>
    /\ glob_order = << >> /\ combined = NoResult

StreamIdle ==
    /\ spc = "idle" /\ clear_on_update = FALSE /\ last_log_length = 0
    /\ responses = << >> /\ emitted = << >>

ClientIdle ==
    /\ rpc = "idle" /\ app_id = "" /\ response_data = << >> /\ app_result = NoApp
    /\ http_log = << >> /\ pub_result = NoPublish

\* the application identifiers of the catalog
Ids == {"app-1", "app-2"}

\* a directory that does not exist
NoDir == [exists |-> FALSE, files |-> << >>]

\* no directory scripts/<sanitized name> at all
NoTree == [exists |-> FALSE, apps |-> [y \in Ids |-> NoDir]]

LoadIdle == lpc = "idle" /\ reload_id = "unset"

DiskIdle == dpc = "idle" /\ tree = NoTree /\ tree_before = NoTree /\ target = ""

----------------------------------------------------------------------------
(* Commands get and set: the tab codec *)

\* the pieces free scripts are assembled from
Pieces == { TabLiteral, << SP >>, << CR >>, << LF >>, << "A" >>, << ":" >>, KeySep }

RECURSIVE Flatten(_)
Flatten(ps) == IF ps = << >> THEN << >> ELSE ps[1] \o Flatten(Tail(ps))

\* every script of at most MaxPieces pieces
FreeScripts == { Flatten(ps) : ps \in UNION { [1..n -> Pieces] : n \in 0..MaxPieces } }

\* one tab of a regular script: its marker line and one line of content
RegularTab == TabLiteral \o << SP, "T", CR, "B", CR >>

RECURSIVE Repeat(_, _)
Repeat(t, n) == IF n = 0 THEN << >> ELSE t \o Repeat(t, n - 1)

\* the scripts of n tabs, with and without text before the first marker
RegularScripts ==
    { pre \o Repeat(RegularTab, n) : pre \in { << >>, << "A", CR >> }, n \in 0..MaxMarkers }

\* the script get_script returned, the directory emptied by empty_script_directory
CodecInit ==
    /\ cpc = "fetched"
    /\ script \in FreeScripts \cup RegularScripts
    /\ tabs = << >>
    /\ files = << >>
    /\ glob_order = << >>
    /\ combined = NoResult
    /\ StreamIdle
    /\ ClientIdle
    /\ LoadIdle
    /\ DiskIdle

\* get: app_script_tabbed = Qlik.parse_script_tabs(app_script)
ParseScriptTabs ==
    /\ cpc = "fetched"
    /\ tabs' = parse_script_tabs(script)
    /\ cpc' = "parsed"
    /\ UNCHANGED << script, files, glob_order, combined, stream_vars, client_vars, load_vars, disk_vars >>

\* get: Qlik.save_tabs_as_qvs_files(app_script_tabbed, App_Name, App_Id)
SaveTabsAsQvsFiles ==
    /\ cpc = "parsed"
    /\ files' = save_tabs_as_qvs_files(tabs, files)
    /\ cpc' = "saved"
    /\ UNCHANGED << script, tabs, glob_order, combined, stream_vars, client_vars, load_vars, disk_vars >>

\* the orders in which a directory of n files may be listed: the file system
\* fixes none, the model takes creation order and its reverse
Listings(n) == { [i \in 1..n |-> i], [i \in 1..n |-> n + 1 - i] }

\* set: script_tabbed = Qlik.get_app_script_tabbed(App_Name, App_Id)
GetAppScriptTabbed ==
    /\ cpc = "saved"
    /\ \E order \in Listings(Len(files)) :
          /\ glob_order' = order
          /\ combined' = get_app_script_tabbed(Glob(files, order))
    /\ cpc' = "set"
    /\ UNCHANGED << script, tabs, files, stream_vars, client_vars, load_vars, disk_vars >>

\* the display read path: combine_tabs_from_files(app_name, app_id)
CombineTabsFromFiles ==
    /\ cpc = "saved"
    /\ \E order \in Listings(Len(files)) :
          /\ glob_order' = order
          /\ combined' = combine_tabs_from_files(Glob(files, order))
    /\ cpc' = "shown"
    /\ UNCHANGED << script, tabs, files, stream_vars, client_vars, load_vars, disk_vars >>

CodecNext ==
    \/ ParseScriptTabs
    \/ SaveTabsAsQvsFiles
    \/ GetAppScriptTabbed
    \/ CombineTabsFromFiles

SpecCodec == CodecInit /\ [][CodecNext]_vars

----------------------------------------------------------------------------
(* Claims about the tab codec, checked under SpecCodec *)

\* the stems of a list of files
Stems(fs) == [i \in 1..Len(fs) |-> fs[i].stem]

\* the part of a tab key behind its first "___" (the key itself when it has none)
RECURSIVE AfterFirstSep(_, _)
AfterFirstSep(key, p) ==
    IF p > Len(key) THEN key
    ELSE IF OccursAt(key, p, KeySep) THEN Slice(key, p + Len(KeySep), Len(key))
    ELSE AfterFirstSep(key, p + 1)

\* two tab collections that differ only in the form of their line endings
SameTabs(a, b) ==
    /\ Len(a) = Len(b)
    /\ \A i \in 1..Len(a) :
          /\ a[i].key = b[i].key
          /\ NormalizeEol(a[i].content) = NormalizeEol(b[i].content)

\* C1: after split, persist and the publish path's reconstruction, the
\* reconstruction has not failed and its text splits into the same tabs, with
\* the same names and contents (line endings normalised) in the same order, as
\* the script that was fetched.
C1_RoundTrip ==
    cpc = "set" =>
        /\ combined.err = ""
        /\ SameTabs(parse_script_tabs(combined.script), tabs)

\* C2: the publish path's default ordering processes the tab files in the
\* order in which the tabs occurred in the script: Main first when present,
\* then the markers by index.
C2_OrderRecovery ==
    cpc = "set" =>
        Stems(OrderAscending(Glob(files, glob_order)))
            = [i \in 1..Len(tabs) |-> SafeName(tabs[i].key)]

\* a marker line as the specification words it: the literal, blanks, and the
\* name on the rest of that same line
MarkerLines(s) == FindIter(s, 1, {SP, "\t"})

\* C6: split returns Main (the trimmed text before the first marker line, when
\* it is not empty, or the whole trimmed script when there is no marker line)
\* followed by one tab per marker line in source order, the i-th keyed
\* {i}___{name} with name the rest of its marker line and holding the trimmed
\* text up to the next marker line or the end of the script.
C6_Split ==
    cpc # "fetched" =>
        LET ms   == MarkerLines(script)
            n    == Len(ms)
            head == IF n = 0 THEN Strip(script) ELSE Strip(Slice(script, 1, ms[1].start - 1))
            off  == IF n = 0 \/ head # << >> THEN 1 ELSE 0
        IN  /\ Len(tabs) = n + off
            /\ off = 1 => tabs[1] = [key |-> MainKey, content |-> head]
            /\ \A i \in 1..n :
                  /\ tabs[off + i].key
                        = DecStr(i - 1) \o KeySep \o Slice(script, ms[i].gstart, ms[i].end)
                  /\ tabs[off + i].content
                        = Strip(Slice(script, ms[i].end + 1,
                                      IF i < n THEN ms[i + 1].start - 1 ELSE Len(script)))

\* the fragments the specification has reconstruct emit for files in this order
RECURSIVE EmitAsSpecified(_, _)
EmitAsSpecified(ordered, k) ==
    IF k > Len(ordered) THEN << >>
    ELSE LET content == NormalizeEol(Strip(ordered[k].content))
         IN  IF content = << >> THEN EmitAsSpecified(ordered, k + 1)
             ELSE IF ordered[k].stem = MainKey /\ k = 1
                  THEN << content >> \o EmitAsSpecified(ordered, k + 1)
                  ELSE << MarkerFragment(AfterFirstSep(ordered[k].stem, 1), content) >>
                          \o EmitAsSpecified(ordered, k + 1)

\* C7: on the publish path and on the display path, reconstruct emits a first
\* tab keyed Main unmarked and every other non-empty tab as its marker line
\* (the key without its index prefix), a carriage return and its content, the
\* fragments joined by a double carriage return.
C7_MarkerEmission ==
    /\ cpc = "set" =>
          LET want == EmitAsSpecified(OrderAscending(Glob(files, glob_order)), 1)
          IN  combined = [err |-> "", parts |-> want, script |-> Join(want, << CR, CR >>)]
    /\ cpc = "shown" =>
          LET want == EmitAsSpecified(OrderDescending(Glob(files, glob_order)), 1)
          IN  combined = [err |-> "", parts |-> want, script |-> Join(want, << CR, CR >>)]

\* the tabs whose name holds a character the file name sanitizer replaces
UnsafeTabs == { i \in 1..Len(tabs) : \E k \in 1..Len(tabs[i].key) : tabs[i].key[k] \in UnsafeChars }

\* C8: a tab whose name holds a file-system-unsafe character is written to the
\* file named by the key with each such character replaced by an underscore,
\* and reconstruct emits its marker line with the original tab name.
C8_NameRecovery ==
    (cpc = "set" /\ combined.err = "") =>
        \A i \in UnsafeTabs :
            /\ \E f \in 1..Len(files) :
                  /\ files[f].stem = Sanitize(tabs[i].key)
                  /\ files[f].content = NormalizeEol(tabs[i].content)
            /\ tabs[i].content # << >> =>
                  \E p \in 1..Len(combined.parts) :
                      combined.parts[p]
                          = MarkerFragment(AfterFirstSep(tabs[i].key, 1),
                                           NormalizeEol(tabs[i].content))

----------------------------------------------------------------------------
(* Command load: the reload log stream *)

\* the status words the remote service reports while the reload goes on ...
RunningStatuses == { << "R", "U", "N", "N", "I", "N", "G" >>, << "q", "u", "e", "u", "e", "d" >> }
\* ... and once it has ended, in the letter cases the service may use
EndedStatuses == { << "s", "u", "c", "c", "e", "e", "d", "e", "d" >>, << "F", "A", "I", "L", "E", "D" >>, << "C", "a", "n", "c", "e", "l", "l", "e", "d" >> }

\* the cumulative logs of at most MaxLog characters
Logs == UNION { [1..n -> {"a", "b"}] : n \in 0..MaxLog }

\* what one call of get_reload_log may do: return a status and a log, or raise
PollResults ==
    [ ok : {TRUE}, status : RunningStatuses \cup EndedStatuses, log : Logs, error : {""} ]
    \cup { [ ok |-> FALSE, status |-> << >>, log |-> << >>, error |-> "ConnectionError" ] }

\* Qlik.stream_reload_log(reload_id, ...) has been called, in either mode
StreamInit ==
    /\ spc = "poll"
    /\ clear_on_update \in BOOLEAN
    /\ last_log_length = 0
    /\ responses = << >>
    /\ emitted = << >>
    /\ CodecIdle
    /\ ClientIdle
    /\ LoadIdle
    /\ DiskIdle

\* one pass of the loop up to its yield: get_reload_log returns, yield_data
\* is built and yielded
PollReturns ==
    /\ spc = "poll"
    /\ Len(responses) < MaxPolls
    /\ \E r \in PollResults :
          /\ r.ok
          /\ responses' = Append(responses, r)
          /\ emitted' = Append(emitted, YieldData(r, last_log_length, clear_on_update))
    /\ spc' = "yielded"
    /\ UNCHANGED << clear_on_update, last_log_length, codec_vars, client_vars, load_vars, disk_vars >>

\* one pass of the loop whose get_reload_log raises: the except branch
PollRaises ==
    /\ spc = "poll"
    /\ Len(responses) < MaxPolls
    /\ \E r \in PollResults :
          /\ ~r.ok
          /\ responses' = Append(responses, r)
          /\ emitted' = emitted \o OnPollError(r.error).yields
          /\ spc' = OnPollError(r.error).next
    /\ UNCHANGED << clear_on_update, last_log_length, codec_vars, client_vars, load_vars, disk_vars >>

\* the consumer asks for the next update: the generator goes on behind its
\* yield, to the next poll or to its end
Resume ==
    /\ spc = "yielded"
    /\ LET r == responses[Len(responses)]
       IN  IF r.ok
           THEN /\ last_log_length' = NextLastLogLength(r.log, last_log_length)
                /\ spc' = AfterYield(emitted[Len(emitted)])
           ELSE /\ last_log_length' = last_log_length
                /\ spc' = "done"
    /\ UNCHANGED << clear_on_update, responses, emitted, codec_vars, client_vars, load_vars, disk_vars >>

StreamNext ==
    \/ PollReturns
    \/ PollRaises
    \/ Resume

SpecStream == StreamInit /\ [][StreamNext]_vars

----------------------------------------------------------------------------
(* Claims about the reload log stream, checked under SpecStream *)

\* C3: a poll that returns SUCCEEDED, FAILED or CANCELLED in any letter case
\* is the last poll; exactly one update has been emitted per poll, the one of
\* that poll has is_complete true and none before it has, and the generator
\* does not go back to polling.
C3_TerminalStop ==
    \A i \in 1..Len(responses) :
        (responses[i].ok /\ responses[i].status \in EndedStatuses) =>
            /\ i = Len(responses)
            /\ Len(emitted) = i
            /\ emitted[i].is_complete
            /\ \A j \in 1..(i - 1) : ~emitted[j].is_complete
            /\ spc \in {"yielded", "done"}

\* C3 witness: a lower-case "succeeded" on the second poll has ended the stream
C3_Witness ==
    /\ spc = "done"
    /\ Len(responses) = 2
    /\ responses[1].ok /\ responses[1].status \in RunningStatuses
    /\ responses[2].ok /\ responses[2].status \in EndedStatuses
    /\ responses[2].status # Upper(responses[2].status)
    /\ emitted[2].is_complete

\* C4: a poll that raises is the last poll; exactly one update has been
\* emitted for it, with status ERROR, is_complete true and the error text, the
\* generator does not poll again and the error does not leave it.
C4_PollFailure ==
    \A i \in 1..Len(responses) :
        ~responses[i].ok =>
            /\ i = Len(responses)
            /\ Len(emitted) = i
            /\ emitted[i] = [ log |-> << "Error polling reload status: ", responses[i].error, LF >>,
                              status |-> << "E", "R", "R", "O", "R" >>,
                              is_new |-> TRUE, is_complete |-> TRUE ]
            /\ \A j \in 1..(i - 1) : ~emitted[j].is_complete
            /\ spc \in {"yielded", "done"}

\* C4 witness: the second poll raised after a successful non-terminal poll,
\* and the stream has ended behind its ERROR update
C4_Witness ==
    /\ spc = "done"
    /\ Len(responses) = 2
    /\ responses[1].ok
    /\ ~responses[2].ok
    /\ Len(emitted) = 2
    /\ emitted[2].is_complete

\* whether a is a prefix of b
IsPrefix(a, b) == Len(a) <= Len(b) /\ SubSeq(b, 1, Len(a)) = a

\* whether the logs of the first i polls only grew by appending
AppendOnly(i) ==
    \A j \in 1..i :
        /\ responses[j].ok
        /\ j > 1 => IsPrefix(responses[j - 1].log, responses[j].log)

\* the log fields of the first i updates, concatenated
RECURSIVE EmittedText(_)
EmittedText(i) == IF i = 0 THEN << >> ELSE EmittedText(i - 1) \o emitted[i].log

\* C5: in whole mode every update carries the full log its poll returned; in
\* delta mode, while the log only grows by appending, every update carries
\* the suffix appended since the previous poll, and the updates so far
\* concatenate to the log the poll returned.
C5_DeliveryModes ==
    \A i \in 1..Len(emitted) :
        responses[i].ok =>
            IF clear_on_update
            THEN emitted[i].log = responses[i].log
            ELSE AppendOnly(i) =>
                    /\ emitted[i].log
                          = Slice(responses[i].log,
                                  (IF i = 1 THEN 0 ELSE Len(responses[i - 1].log)) + 1,
                                  Len(responses[i].log))
                    /\ EmittedText(i) = responses[i].log

\* C5 witness: in delta mode the log grew from "a" to "ab" and the two updates
\* carried "a" and "b"
C5_Witness ==
    /\ ~clear_on_update
    /\ Len(emitted) = 2
    /\ responses[1].ok /\ responses[2].ok
    /\ responses[1].log = << "a" >>
    /\ responses[2].log = << "a", "b" >>
    /\ emitted[1].log = << "a" >>
    /\ emitted[2].log = << "b" >>

----------------------------------------------------------------------------
(* Command pub: application resolution and publish *)

\* the catalog entries a search may return
Items ==
    [ name : {"Sales"}, resourceId : {"app-1", "app-2"}, id : {"item-1"}, spaceId : {"", "space-1"} ]

\* the search results of at most MaxMatches entries
SearchResults == UNION { [1..n -> Items] : n \in 0..MaxMatches }

\* how the two calls of get_space_type may end
SpaceOutcomes == { << TRUE, TRUE >>, << TRUE, FALSE >>, << FALSE, FALSE >> }

\* the entries GET /items/{id}/publisheditems may return ("absent": no resourceId key)
PublishedResults ==
    { << >>, << [resourceId |-> "absent"] >>, << [resourceId |-> "pub-1"] >> }

\* qlik pub <app_name> [<app_id>]
ClientInit ==
    /\ rpc = "start"
    /\ app_id \in {"", "app-1"}
    /\ response_data = << >>
    /\ app_result = NoApp
    /\ http_log = << >>
    /\ pub_result = NoPublish
    /\ CodecIdle
    /\ StreamIdle
    /\ LoadIdle
    /\ DiskIdle

\* app_info = self.get_app_by_name(app_name, app_id): in publish_app, and once
\* more at the head of get_app_published_id
GetAppByName ==
    /\ rpc \in {"start", "resolved"}
    /\ \E data \in SearchResults, space_ok \in SpaceOutcomes :
          LET r == get_app_by_name(app_id, data, space_ok)
          IN  /\ response_data' = data
              /\ app_result' = r
              /\ http_log' = http_log \o r.requests
              /\ rpc' = IF r.err # "" THEN "failed"
                        ELSE IF rpc = "start" THEN "resolved" ELSE "resolved_again"
              /\ pub_result' = IF r.err # "" THEN [pub_result EXCEPT !.err = r.err]
                               ELSE pub_result
    /\ UNCHANGED << app_id, codec_vars, stream_vars, load_vars, disk_vars >>

\* the rest of get_app_published_id: the item lookup and the published lookup
GetAppPublishedId ==
    /\ rpc = "resolved_again"
    /\ \E item_ok \in BOOLEAN, item_data \in { << >>, << [id |-> "item-1"] >> },
          pub_ok \in BOOLEAN, pub_data \in PublishedResults :
          LET r == get_app_published_id([ok |-> item_ok, data |-> item_data],
                                        [ok |-> pub_ok, data |-> pub_data])
          IN  /\ http_log' = http_log \o r.requests
              /\ pub_result' = [ err       |-> IF r.err # "" THEN r.err ELSE pub_result.err,
                                 target    |-> r.id,
                                 published |-> IF Len(r.requests) = 2 /\ pub_ok
                                               THEN << pub_data >> ELSE << >> ]
              /\ rpc' = IF r.err # "" THEN "failed" ELSE "have_id"
    /\ UNCHANGED << app_id, response_data, app_result, codec_vars, stream_vars, load_vars, disk_vars >>

\* requests.put(url, json={"targetId": app_published_id}) and what follows it
Publish ==
    /\ rpc = "have_id"
    /\ \E put_ok \in BOOLEAN, code \in {200, 204} :
          LET r == PublishRequest(pub_result.target, [ok |-> put_ok, status_code |-> code])
          IN  /\ http_log' = http_log \o r.requests
              /\ pub_result' = [pub_result EXCEPT !.err = r.err]
              /\ rpc' = IF r.err # "" THEN "failed" ELSE "done"
    /\ UNCHANGED << app_id, response_data, app_result, codec_vars, stream_vars, load_vars, disk_vars >>

ClientNext ==
    \/ GetAppByName
    \/ GetAppPublishedId
    \/ Publish

SpecClient == ClientInit /\ [][ClientNext]_vars

----------------------------------------------------------------------------
(* Claims about the remote client, checked under SpecClient *)

NotFoundError == "ValueError: No app found"
AmbiguousError == "ValueError: Multiple apps found"
PublishFirstError == "ValueError: publish it once from the UI first"

\* whether a request of this kind is among reqs
Sent(reqs, kind) == \E k \in 1..Len(reqs) : reqs[k] = kind

\* the names and identifiers of all candidates of the last search
Candidates == [i \in 1..Len(response_data) |-> << response_data[i].name, response_data[i].resourceId >>]

FirstSent(kind) ==
    IF Sent(http_log, kind)
    THEN CHOOSE k \in 1..Len(http_log) :
            http_log[k] = kind /\ \A j \in 1..(k - 1) : http_log[j] # kind
    ELSE 0

\* C10: a publish request is in the log only behind the published lookup, and
\* only when that lookup returned a counterpart whose identifier is the
\* request's target; when the lookup returned no counterpart the run has
\* failed with the publish-it-once-first error and no publish request was sent.
C10_PublishAfterLookup ==
    /\ Sent(http_log, "PUT /apps/publish") =>
          /\ 0 < FirstSent("GET /items/publisheditems")
          /\ FirstSent("GET /items/publisheditems") < FirstSent("PUT /apps/publish")
          /\ pub_result.published # << >>
          /\ pub_result.published[1] # << >>
          /\ pub_result.published[1][1].resourceId # "absent"
          /\ pub_result.target = pub_result.published[1][1].resourceId
    /\ ( /\ pub_result.published # << >>
         /\ \/ pub_result.published[1] = << >>
            \/ pub_result.published[1][1].resourceId = "absent" ) =>
          /\ rpc = "failed"
          /\ pub_result.err = PublishFirstError
          /\ ~Sent(http_log, "PUT /apps/publish")

\* C10 witness: the published lookup was made and returned an entry without
\* an identifier; the run has failed
C10_Witness ==
    /\ rpc = "failed"
    /\ Sent(http_log, "GET /items/publisheditems")
    /\ pub_result.published = << << [resourceId |-> "absent"] >> >>
    /\ pub_result.err = PublishFirstError

----------------------------------------------------------------------------
(* Command load: the reload request, then the log stream *)

\* the rest of QlikScript.reload_app after get_app_by_name: the POST of
\* /reloads, raise_for_status, and reload_data.get("id"), which is None
\* (here "None") when the body has no id: [err, reload_id, requests]
reload_app(post) ==
    IF ~post.ok
    THEN [err |-> "HTTPError", reload_id |-> "unset", requests |-> << "POST /reloads" >>]
    ELSE [err |-> "", reload_id |-> post.id, requests |-> << "POST /reloads" >>]

\* how POST /reloads may answer: a status raise_for_status rejects, or a
\* success whose body carries an id or none
ReloadResponses ==
    { [ok |-> FALSE, id |-> "None"], [ok |-> TRUE, id |-> "None"],
      [ok |-> TRUE, id |-> "reload-1"] }

\* qlik load <app_name> [<app_id>]
LoadInit ==
    /\ lpc = "start"
    /\ reload_id = "unset"
    /\ app_id \in {"", "app-1"}
    /\ rpc = "idle"
    /\ response_data = << >>
    /\ app_result = NoApp
    /\ http_log = << >>
    /\ pub_result = NoPublish
    /\ CodecIdle
    /\ StreamIdle
    /\ DiskIdle

\* load calls Qlik.reload_app(App_Name, App_Id)
ReloadApp ==
    /\ lpc = "start"
    /\ \E data \in SearchResults, space_ok \in SpaceOutcomes, post \in ReloadResponses :
          LET r   == get_app_by_name(app_id, data, space_ok)
              res == reload_app(post)
          IN  /\ response_data' = data
              /\ app_result' = r
              /\ IF r.err # ""
                 THEN /\ http_log' = http_log \o r.requests
                      /\ reload_id' = reload_id
                      /\ lpc' = "failed"
                 ELSE /\ http_log' = http_log \o r.requests \o res.requests
                      /\ reload_id' = res.reload_id
                      /\ lpc' = IF res.err # "" THEN "failed" ELSE "reloaded"
    /\ UNCHANGED << rpc, app_id, pub_result, codec_vars, stream_vars, disk_vars >>

\* load enters the loop over stream_reload_log(reload_id, poll_interval=1.0,
\* clear_on_update=True), whatever reload_app returned
StreamReloadLog ==
    /\ lpc = "reloaded"
    /\ spc = "idle"
    /\ lpc' = "streaming"
    /\ spc' = "poll"
    /\ clear_on_update' = TRUE
    /\ UNCHANGED << last_log_length, responses, emitted, reload_id,
                    codec_vars, client_vars, disk_vars >>

LoadNext == ReloadApp \/ StreamReloadLog \/ PollReturns \/ PollRaises \/ Resume

SpecLoad == LoadInit /\ [][LoadNext]_vars

\* C11: reload_app returns the identifier the service assigned and fails
\* when the response carries none, so that the load command never polls
\* with a missing reload identifier.
C11_ReloadSubmit ==
    /\ lpc \in {"reloaded", "streaming"} => reload_id = "reload-1"
    /\ spc # "idle" => reload_id # "None"

----------------------------------------------------------------------------
(* Commands rem and get: the local directory scripts/<sanitized name> *)

\* shutil.rmtree(scripts_dir) where scripts_dir is scripts/<sanitized name>:
\* the name directory goes with every application directory below it
rmtree(t) == NoTree

\* not any(app_dir.iterdir())
IsEmptyDir(t) == \A y \in Ids : ~t.apps[y].exists

\* the body of QlikScript.empty_script_directory after get_app_by_name:
\* scripts_dir and app_dir are the same path, built from the sanitized name
\* alone, so the application identifier takes no part
empty_script_directory(t) ==
    LET removed == IF t.exists THEN rmtree(t) ELSE t
    IN  IF removed.exists /\ IsEmptyDir(removed)
        THEN [removed EXCEPT !.exists = FALSE]
        ELSE removed

\* save_tabs_as_qvs_files after get_app_by_name: output_dir.mkdir(parents=True,
\* exist_ok=True) for scripts/<sanitized name>/<id>, then one file per tab
SaveInto(t, id, d) ==
    [ exists |-> TRUE,
      apps   |-> [t.apps EXCEPT ![id] =
                     [exists |-> TRUE, files |-> save_tabs_as_qvs_files(d, t.apps[id].files)]] ]

\* the scripts the remote may hold: none, text without a marker, one tab,
\* text and two tabs
DiskScripts ==
    { << >>, << "A" >>, Repeat(RegularTab, 1), << "A", CR >> \o Repeat(RegularTab, 2) }

\* an application directory as an earlier get left it, or none
DiskDirs ==
    { NoDir } \cup
    { [exists |-> TRUE, files |-> save_tabs_as_qvs_files(parse_script_tabs(s), << >>)] :
         s \in DiskScripts }

\* the name directory before the command: application directories only
\* inside an existing name directory
DiskTrees ==
    { t \in [exists : BOOLEAN, apps : [Ids -> DiskDirs]] : ~IsEmptyDir(t) => t.exists }

\* how GET /apps/{id}/scripts and GET /apps/{id}/scripts/{script_id} may end
FetchOutcomes ==
    { [ok |-> FALSE, script |-> << >>] } \cup { [ok |-> TRUE, script |-> s] : s \in DiskScripts }

\* qlik rem <app_name> [<app_id>]  and  qlik get <app_name> [<app_id>]
DiskInit ==
    /\ dpc = "start"
    /\ tree \in DiskTrees
    /\ tree_before = NoTree
    /\ target = ""
    /\ app_id \in {"", "app-1"}
    /\ rpc = "idle"
    /\ response_data = << >>
    /\ app_result = NoApp
    /\ http_log = << >>
    /\ pub_result = NoPublish
    /\ CodecIdle
    /\ StreamIdle
    /\ LoadIdle

\* one call of empty_script_directory(app_name, app_id), leaving the run at
\* position done when get_app_by_name passed
EmptyScriptDirectory(done) ==
    \E data \in SearchResults, space_ok \in SpaceOutcomes :
       LET r == get_app_by_name(app_id, data, space_ok)
       IN  /\ response_data' = data
           /\ app_result' = r
           /\ http_log' = http_log \o r.requests
           /\ IF r.err # ""
              THEN /\ dpc' = "failed"
                   /\ UNCHANGED << tree, tree_before, target >>
              ELSE /\ dpc' = done
                   /\ tree_before' = tree
                   /\ tree' = empty_script_directory(tree)
                   /\ target' = r.record.appId

\* rem: Qlik.empty_script_directory(App_Name, App_Id)
Rem ==
    /\ dpc = "start"
    /\ EmptyScriptDirectory("removed")
    /\ UNCHANGED << rpc, app_id, pub_result, codec_vars, stream_vars, load_vars >>

\* get: Qlik.empty_script_directory(App_Name, App_Id)
GetEmpty ==
    /\ dpc = "start"
    /\ EmptyScriptDirectory("emptied")
    /\ UNCHANGED << rpc, app_id, pub_result, codec_vars, stream_vars, load_vars >>

\* get: app_script = Qlik.get_script(App_Name, App_Id): get_app_by_name,
\* empty_script_directory once more, then the two requests for the script
GetScript ==
    /\ dpc = "emptied"
    /\ \E data \in SearchResults, space_ok \in SpaceOutcomes, fetched \in FetchOutcomes :
          LET r == get_app_by_name(app_id, data, space_ok)
          IN  IF r.err # ""
              THEN /\ response_data' = data
                   /\ app_result' = r
                   /\ http_log' = http_log \o r.requests
                   /\ dpc' = "failed"
                   /\ UNCHANGED << tree, tree_before, target, script >>
              ELSE \E data2 \in SearchResults, space_ok2 \in SpaceOutcomes :
                      LET r2 == get_app_by_name(app_id, data2, space_ok2)
                      IN  /\ response_data' = data2
                          /\ app_result' = r2
                          /\ IF r2.err # ""
                             THEN /\ http_log' = http_log \o r.requests \o r2.requests
                                  /\ dpc' = "failed"
                                  /\ UNCHANGED << tree, tree_before, target, script >>
                             ELSE /\ http_log' = http_log \o r.requests \o r2.requests
                                                   \o << "GET /apps/scripts" >>
                                  /\ tree_before' = tree
                                  /\ tree' = empty_script_directory(tree)
                                  /\ target' = r2.record.appId
                                  /\ dpc' = IF fetched.ok THEN "fetched" ELSE "failed"
                                  /\ script' = IF fetched.ok THEN fetched.script ELSE script
    /\ UNCHANGED << cpc, tabs, files, glob_order, combined, rpc, app_id, pub_result,
                    stream_vars, load_vars >>

\* get: app_script_tabbed = Qlik.parse_script_tabs(app_script)
GetParse ==
    /\ dpc = "fetched"
    /\ tabs' = parse_script_tabs(script)
    /\ dpc' = "parsed"
    /\ UNCHANGED << cpc, script, files, glob_order, combined, tree, tree_before, target,
                    client_vars, stream_vars, load_vars >>

\* get: Qlik.save_tabs_as_qvs_files(app_script_tabbed, App_Name, App_Id)
GetSave ==
    /\ dpc = "parsed"
    /\ \E data \in SearchResults, space_ok \in SpaceOutcomes :
          LET r == get_app_by_name(app_id, data, space_ok)
          IN  /\ response_data' = data
              /\ app_result' = r
              /\ http_log' = http_log \o r.requests
              /\ IF r.err # ""
                 THEN /\ dpc' = "failed"
                      /\ UNCHANGED << tree, target >>
                 ELSE /\ dpc' = "saved"
                      /\ tree' = SaveInto(tree, r.record.appId, tabs)
                      /\ target' = r.record.appId
    /\ UNCHANGED << tree_before, rpc, app_id, pub_result, codec_vars, stream_vars, load_vars >>

DiskNext == Rem \/ GetEmpty \/ GetScript \/ GetParse \/ GetSave

SpecDisk == DiskInit /\ [][DiskNext]_vars

\* C12: empty_script_directory for the application (name N, identifier X),
\* as run by rem and as the first step of get, removes scripts/<N>/<X> with
\* its files, leaves the directory and files of every other identifier Y
\* under the same name as they were, and removes the name directory only
\* if it is empty afterwards.
C12_Frame ==
    dpc \in {"removed", "emptied"} =>
       /\ ~tree.apps[target].exists
       /\ \A y \in Ids \ {target} : tree.apps[y] = tree_before.apps[y]
       /\ tree.exists = (tree_before.exists /\ ~IsEmptyDir(tree))

----------------------------------------------------------------------------
(* Reload log stream against a reload that follows its lifecycle *)

\* the status of a reload the service has accepted and not yet queued
SubmittedStatuses == { << "S", "U", "B", "M", "I", "T", "T", "E", "D" >> }

\* how far along its lifecycle a reload reporting this status is: submitted,
\* then queued or running, then ended
Phase(status) ==
    IF status \in EndedStatuses THEN 2
    ELSE IF status \in RunningStatuses THEN 1
    ELSE 0

\* the phase the last poll has seen
LastPhase == IF responses = << >> THEN 0 ELSE Phase(responses[Len(responses)].status)

\* what get_reload_log may return for such a reload
LifecycleResults ==
    [ ok : {TRUE}, status : SubmittedStatuses \cup RunningStatuses \cup EndedStatuses,
      log : Logs, error : {""} ]

\* one pass of the loop up to its yield, where get_reload_log returns, the
\* reload never goes back in its lifecycle, and it has ended by poll MaxPolls
PollLifecycle ==
    /\ spc = "poll"
    /\ Len(responses) < MaxPolls
    /\ \E r \in LifecycleResults :
          /\ Phase(r.status) >= LastPhase
          /\ Len(responses) + 1 = MaxPolls => r.status \in EndedStatuses
          /\ responses' = Append(responses, r)
          /\ emitted' = Append(emitted, YieldData(r, last_log_length, clear_on_update))
    /\ spc' = "yielded"
    /\ UNCHANGED << clear_on_update, last_log_length, codec_vars, client_vars, load_vars, disk_vars >>

ReloadNext == PollLifecycle \/ Resume

\* every poll returns (the loop runs on after time.sleep) and the consumer's
\* for loop asks for every next update
SpecReload ==
    StreamInit /\ [][ReloadNext]_vars /\ WF_vars(PollLifecycle) /\ WF_vars(Resume)

\* C13: when every poll returns and the reload, following its lifecycle,
\* eventually reports a final status, every run of stream_reload_log
\* eventually emits an update with is_complete true and ends, and it has
\* made exactly one poll per emitted update throughout.
C13_StreamTermination ==
    /\ <>( /\ spc = "done"
           /\ emitted # << >>
           /\ emitted[Len(emitted)].is_complete )
    /\ [](Len(emitted) = Len(responses))

\* C13 witness: a reload seen submitted, then ended, has ended the stream
\* after two polls and two updates
C13_Witness ==
    /\ spc = "done"
    /\ Len(responses) = 2
    /\ responses[1].status \in SubmittedStatuses
    /\ responses[2].status \in EndedStatuses
    /\ Len(emitted) = 2
    /\ ~emitted[1].is_complete
    /\ emitted[2].is_complete

=============================================================================
